---------------------------- MODULE Spec2Model ----------------------------
(***************************************************************************)
(* Model of the video2text detection pipeline:                             *)
(*   io/extractor.py  FrameExtractor  (frame sampling, handle lifecycle)   *)
(*   io/writer.py     JsonWriter      (detection store, filter, dedup,     *)
(*                                     grouped transcript)                 *)
(*   ocr/paddle.py    PaddleOCRWrapper.recognize (recognition gate)        *)
(*   engine.py        run_pipeline    (driver)                             *)
(*                                                                         *)
(* Numbers.  Python floats are modelled as integers on a decimal grid.     *)
(* Stored timestamps are milliseconds (round(timestamp, 3)), stored        *)
(* confidences are ten-thousandths (round(confidence, 4)).  Raw values     *)
(* (before rounding) live on a grid SubRes times finer.  Similarity is the *)
(* exact rational 2*M/T of difflib, compared against a threshold given in  *)
(* hundredths.  Bounding boxes are not modelled: no operation reads them   *)
(* back.                                                                   *)
(*                                                                         *)
(* Text.  A string is a sequence of one-character strings.                 *)
(***************************************************************************)
EXTENDS Integers, Sequences, FiniteSets, TLC

\* ------------------------------------------------------------------ bounds
\* Largest number of detections the store is driven to in StoreSpec.
MaxData == 3
\* Raw floats are SubRes times finer than the stored (rounded) resolution.
SubRes == 10
\* Largest number of decodable frames of a source.
MaxFrames == 5
\* Largest stride given to the FrameExtractor constructor.
MaxStep == 3
\* How many VideoCaptures one FrameExtractor opens (the first, and reopens).
MaxHandles == 2
\* Largest number of decodable frames of the source of a pipeline run.
PipeFrames == 2
\* Largest number of raw results the engine returns for one frame.
MaxRaw == 2
\* Random-access calls the caller makes during one iteration.
MaxSeeks == 2

\* ------------------------------------------------------------------ text
hello == <<"h", "e", "l", "l", "o">>
Hallo == <<"H", "a", "l", "l", "o">>
blank == <<" ">>
padded == <<" ", "h", "e", "l", "l", "o", " ">>
empty == <<>>

\* texts given to add and returned by the engine
Texts == {hello, Hallo, blank, padded}

IsSpace(c) == c = " "

\* str.lower() on one character
LowerChar(c) ==
  CASE c = "H" -> "h"
    [] c = "A" -> "a"
    [] c = "E" -> "e"
    [] c = "L" -> "l"
    [] c = "O" -> "o"
    [] OTHER -> c

\* str.lower()
Lower(s) == [i \in 1..Len(s) |-> LowerChar(s[i])]

\* str.strip(): from the first to the last character that is not whitespace
Strip(s) ==
  LET keep == {i \in 1..Len(s) : ~IsSpace(s[i])}
  IN IF keep = {} THEN <<>>
     ELSE SubSeq(s, CHOOSE i \in keep : \A j \in keep : i <= j,
                    CHOOSE i \in keep : \A j \in keep : i >= j)

\* ------------------------------------------------- difflib.SequenceMatcher
\* Positions are 1-based; a window is <<alo, ahi, blo, bhi>>, upper ends
\* exclusive.
\* find_longest_match on one window, run[i, j] being the length of the common
\* run of a[i..] and b[j..]: the longest block a[i..i+k-1] = b[j..j+k-1] inside
\* the window; of those the one starting earliest in a, then earliest in b.
\* <<alo, blo, 0>> when the window has no common character.
FindLongestMatch(run, alo, ahi, blo, bhi) ==
  LET Cut(i, j) ==
        LET k == run[i, j]
            ka == IF k > ahi - i THEN ahi - i ELSE k
        IN IF ka > bhi - j THEN bhi - j ELSE ka
      cands == {<<i, j, Cut(i, j)>> : i \in alo..(ahi - 1), j \in blo..(bhi - 1)}
      found == {c \in cands : c[3] > 0}
  IN IF found = {} THEN <<alo, blo, 0>>
     ELSE CHOOSE c \in found :
            \A d \in found :
              \/ c[3] > d[3]
              \/ c[3] = d[3] /\ c[1] < d[1]
              \/ c[3] = d[3] /\ c[1] = d[1] /\ c[2] <= d[2]

\* get_matching_blocks, summed: the number of matched characters of a and b.
\* The longest match of a window is counted, then the windows left and right
\* of it.
Matches(a, b) ==
  LET run[i \in 1..(Len(a) + 1), j \in 1..(Len(b) + 1)] ==
        IF i <= Len(a) /\ j <= Len(b) /\ a[i] = b[j] THEN 1 + run[i + 1, j + 1] ELSE 0
      count[alo \in 1..(Len(a) + 1), ahi \in 1..(Len(a) + 1),
            blo \in 1..(Len(b) + 1), bhi \in 1..(Len(b) + 1)] ==
        LET m == FindLongestMatch(run, alo, ahi, blo, bhi)
        IN IF m[3] = 0 THEN 0
           ELSE m[3] + count[alo, m[1], blo, m[2]]
                     + count[m[1] + m[3], ahi, m[2] + m[3], bhi]
  IN count[1, Len(a) + 1, 1, Len(b) + 1]

\* The matched-character counts of the texts the model is driven with,
\* computed once.
KnownTexts == {Lower(Strip(t)) : t \in Texts} \cup {Strip(t) : t \in Texts}
MatchTable == [p \in KnownTexts \X KnownTexts |-> Matches(p[1], p[2])] @@ <<>>

MatchCount(a, b) ==
  IF a \in KnownTexts /\ b \in KnownTexts THEN MatchTable[<<a, b>>] ELSE Matches(a, b)

\* SequenceMatcher(None, a, b).ratio() >= threshold, the threshold in
\* hundredths; ratio() is 2.0*M/T, and 1.0 when both strings are empty.
RatioAtLeast(a, b, pct) ==
  LET T == Len(a) + Len(b)
      M == MatchCount(a, b)
  IN IF T = 0 THEN 100 >= pct ELSE 200 * M >= pct * T

\* ------------------------------------------------------------- rounding
\* round(x, n) of a raw value x given in units 1/SubRes of the stored unit:
\* nearest, an exact tie to the even neighbour.
Round(x) ==
  LET q == x \div SubRes
      r == x % SubRes
  IN IF 2 * r < SubRes THEN q
     ELSE IF 2 * r > SubRes THEN q + 1
     ELSE IF q % 2 = 0 THEN q ELSE q + 1


\* =================================================================== state
VARIABLES
  \* ---- FrameExtractor (io/extractor.py)
  step,           \* self.step
  nframes,        \* frames the source can decode (the video file)
  cap,            \* self.cap: 0 is None, h > 0 the h-th VideoCapture opened
  pos,            \* decode position of the open VideoCapture
  releases,       \* releases[h]: how often cap.release() ran on handle h
  gen,            \* the generator of __iter__: "none", "loop", "yield", "done"
  frame_idx,      \* local frame_idx of the generator
  yielded,        \* frame indices the current generator has yielded
  ending,         \* how the generator ended: "", "exhausted", "closed", "error"
  alive,          \* the FrameExtractor object has not been destroyed
  lookups,        \* outcomes of the get_frame_at_* calls since the iteration began
  \* ---- JsonWriter (io/writer.py)
  data,           \* self.data
  total_detections, \* self.metadata["total_detections"]
  removed_count,  \* filtered_count / removed_count of the last call
  out,            \* lines written by the last call (export_grouped_text)
  lastOp,         \* the last JsonWriter call and, for remove_duplicates, its arguments
  issued,         \* every detection_id handed out so far
  json,           \* the document finalize wrote to output_path, if any
  \* ---- run_pipeline (engine.py)
  ppc,            \* position of run_pipeline
  ocr,            \* PaddleOCRWrapper.ocr: "none" or "ready"
  options,        \* min_confidence / filter_duplicates given to run_pipeline_advanced
  frame_count,    \* frame_count of run_pipeline
  offered,        \* raw results the engine returned so far
  added,          \* raw results passed to writer.add so far
  failed,         \* indices of the samples whose predict call raised
  init_failed     \* an _init_ocr call of the run caught an Exception

samplerVars ==
  <<step, nframes, cap, pos, releases, gen, frame_idx, yielded, ending, alive, lookups>>
storeVars == <<data, total_detections, removed_count, out, lastOp, issued, json>>
pipeVars == <<ppc, ocr, options, frame_count, offered, added, failed, init_failed>>
vars == <<samplerVars, storeVars, pipeVars>>

Last(seq) == seq[Len(seq)]

\* ============================================================== JsonWriter
\* The detection dict of JsonWriter.add; n is len(self.data) at the call.
NewDetection(timestamp, text, confidence, n) ==
  [timestamp |-> Round(timestamp),
   text |-> Strip(text),
   confidence |-> Round(confidence),
   text_length |-> Len(Strip(text)),
   detection_id |-> n + 1]

NoOp == [op |-> "init", tt |-> 0, st |-> 0]

\* output_path before finalize has written it
NoDocument == [written |-> FALSE, total_detections |-> 0, detections |-> <<>>]

\* JsonWriter.__init__
WriterInit ==
  /\ data = <<>>
  /\ total_detections = 0
  /\ removed_count = 0
  /\ out = <<>>
  /\ lastOp = NoOp
  /\ issued = {}
  /\ json = NoDocument

\* self.data after JsonWriter.add
Appended(seq, timestamp, text, confidence) ==
  Append(seq, NewDetection(timestamp, text, confidence, Len(seq)))

\* JsonWriter.add
Add(timestamp, text, confidence) ==
  /\ data' = Appended(data, timestamp, text, confidence)
  /\ total_detections' = total_detections + 1
  /\ issued' = issued \cup {Last(data').detection_id}
  /\ lastOp' = [op |-> "add", tt |-> 0, st |-> 0]
  /\ removed_count' = 0
  /\ out' = <<>>
  /\ UNCHANGED json

\* KeepConfident with the comparison made strict
KeepConfidentStrict(seq, min_confidence) ==
  LET Keep(d) == d.confidence > min_confidence
  IN SelectSeq(seq, Keep)

\* the list comprehension of filter_by_confidence
KeepConfident(seq, min_confidence) ==
  LET Keep(d) == d.confidence >= min_confidence
  IN SelectSeq(seq, Keep)

\* TotalAfterRemoval leaving metadata["total_detections"] as it was
TotalAfterRemovalStale(total, remaining, count) == total

\* metadata["total_detections"] after a call that removed count detections:
\* set to len(self.data) under "if ..._count > 0", else not touched
TotalAfterRemoval(total, remaining, count) ==
  IF count > 0 THEN Len(remaining) ELSE total

\* JsonWriter.filter_by_confidence
FilterByConfidence(min_confidence) ==
  LET kept == KeepConfident(data, min_confidence)
      filtered_count == Len(data) - Len(kept)
  IN /\ data' = kept
     /\ removed_count' = filtered_count
     /\ total_detections' = TotalAfterRemoval(total_detections, kept, filtered_count)
     /\ lastOp' = [op |-> "filter", tt |-> 0, st |-> 0]
     /\ out' = <<>>
     /\ UNCHANGED <<issued, json>>

Abs(x) == IF x < 0 THEN -x ELSE x

\* the similarity test of remove_duplicates, on the lowercased texts
Similar(current, existing, similarity_threshold) ==
  RatioAtLeast(Lower(current.text), Lower(existing.text), similarity_threshold)

\* the inner loop of remove_duplicates: the index of the first entry of
\* filtered_data the candidate duplicates, 0 when the loop ends without a break
FirstMatch(filtered, current, time_threshold, similarity_threshold) ==
  LET hits == {i \in 1..Len(filtered) :
                 /\ ~(Abs(current.timestamp - filtered[i].timestamp) > time_threshold)
                 /\ Similar(current, filtered[i], similarity_threshold)}
  IN IF hits = {} THEN 0 ELSE CHOOSE i \in hits : \A j \in hits : i <= j

\* list.remove(x): drops the first element equal to x
ListRemove(seq, x) ==
  LET k == CHOOSE i \in 1..Len(seq) : seq[i] = x /\ \A j \in 1..(i - 1) : seq[j] # x
  IN SubSeq(seq, 1, k - 1) \o SubSeq(seq, k + 1, Len(seq))

\* DedupStep with the confidence comparison turned around
DedupStepKeepLower(filtered, current, time_threshold, similarity_threshold) ==
  LET m == FirstMatch(filtered, current, time_threshold, similarity_threshold)
  IN IF m = 0 THEN Append(filtered, current)
     ELSE IF current.confidence < filtered[m].confidence
       THEN Append(ListRemove(filtered, filtered[m]), current)
       ELSE filtered

\* DedupStep removing the accepted entry without putting the candidate in
DedupStepDropBoth(filtered, current, time_threshold, similarity_threshold) ==
  LET m == FirstMatch(filtered, current, time_threshold, similarity_threshold)
  IN IF m = 0 THEN Append(filtered, current)
     ELSE IF current.confidence > filtered[m].confidence
       THEN ListRemove(filtered, filtered[m])
       ELSE filtered

\* DedupStep replacing the accepted entry on equal confidence as well
DedupStepReplaceOnTie(filtered, current, time_threshold, similarity_threshold) ==
  LET m == FirstMatch(filtered, current, time_threshold, similarity_threshold)
  IN IF m = 0 THEN Append(filtered, current)
     ELSE IF current.confidence >= filtered[m].confidence
       THEN Append(ListRemove(filtered, filtered[m]), current)
       ELSE filtered

\* one pass of the outer loop body of remove_duplicates
DedupStep(filtered, current, time_threshold, similarity_threshold) ==
  LET m == FirstMatch(filtered, current, time_threshold, similarity_threshold)
  IN IF m = 0 THEN Append(filtered, current)
     ELSE IF current.confidence > filtered[m].confidence
       THEN Append(ListRemove(filtered, filtered[m]), current)
       ELSE filtered

\* the outer loop of remove_duplicates from element k on
RECURSIVE DedupFrom(_, _, _, _, _)
DedupFrom(seq, k, filtered, time_threshold, similarity_threshold) ==
  IF k > Len(seq) THEN filtered
  ELSE DedupFrom(seq, k + 1,
                 DedupStep(filtered, seq[k], time_threshold, similarity_threshold),
                 time_threshold, similarity_threshold)

\* filtered_data of remove_duplicates
Dedup(seq, time_threshold, similarity_threshold) ==
  DedupFrom(seq, 1, <<>>, time_threshold, similarity_threshold)

\* JsonWriter.remove_duplicates
RemoveDuplicates(time_threshold, similarity_threshold) ==
  /\ lastOp' = [op |-> "dedup", tt |-> time_threshold, st |-> similarity_threshold]
  /\ out' = <<>>
  /\ UNCHANGED <<issued, json>>
  /\ IF Len(data) <= 1
       THEN /\ removed_count' = 0
            /\ UNCHANGED <<data, total_detections>>
       ELSE LET filtered_data == Dedup(data, time_threshold, similarity_threshold)
                removed == Len(data) - Len(filtered_data)
            IN /\ data' = filtered_data
               /\ removed_count' = removed
               /\ total_detections' =
                    TotalAfterRemoval(total_detections, filtered_data, removed)

\* InsertByTimestamp putting d in front of the elements of equal timestamp
InsertByTimestampUnstable(sorted, d) ==
  LET k == Cardinality({i \in 1..Len(sorted) : sorted[i].timestamp < d.timestamp})
  IN SubSeq(sorted, 1, k) \o <<d>> \o SubSeq(sorted, k + 1, Len(sorted))

\* sorted(self.data, key=timestamp), one insertion: stable, so d goes behind
\* every element whose timestamp is not larger
InsertByTimestamp(sorted, d) ==
  LET k == Cardinality({i \in 1..Len(sorted) : sorted[i].timestamp <= d.timestamp})
  IN SubSeq(sorted, 1, k) \o <<d>> \o SubSeq(sorted, k + 1, Len(sorted))

RECURSIVE SortedFrom(_, _, _)
SortedFrom(seq, k, sorted) ==
  IF k > Len(seq) THEN sorted
  ELSE SortedFrom(seq, k + 1, InsertByTimestamp(sorted, seq[k]))

\* sorted(self.data, key=lambda x: x["timestamp"])
SortedByTimestamp(seq) == SortedFrom(seq, 1, <<>>)

\* the loop body of export_grouped_text filling the OrderedDict buckets
BucketAdd(buckets, d) ==
  LET txt == Strip(d.text)
      at == {i \in 1..Len(buckets) : buckets[i].ts = d.timestamp}
  IN IF txt = <<>> THEN buckets
     ELSE IF at = {}
       THEN Append(buckets, [ts |-> d.timestamp, texts |-> <<txt>>])
       ELSE LET i == CHOOSE i \in at : TRUE
            IN [buckets EXCEPT ![i].texts = Append(@, txt)]

RECURSIVE BucketsFrom(_, _, _)
BucketsFrom(sorted, k, buckets) ==
  IF k > Len(sorted) THEN buckets
  ELSE BucketsFrom(sorted, k + 1, BucketAdd(buckets, sorted[k]))

\* buckets of export_grouped_text, in the OrderedDict's insertion order
Buckets(seq) == BucketsFrom(SortedByTimestamp(seq), 1, <<>>)

\* sep.join(texts)
RECURSIVE Join(_, _)
Join(texts, sep) ==
  IF texts = <<>> THEN <<>>
  ELSE IF Len(texts) = 1 THEN texts[1]
  ELSE texts[1] \o sep \o Join(Tail(texts), sep)

\* JsonWriter._format_mmss on a stored timestamp (milliseconds): <<mm, ss>>,
\* with show_ms <<mm, ss, ms>>
FormatMMSS(seconds, show_ms) ==
  LET total_ms == seconds
      mm == (total_ms \div 1000) \div 60
      ss == (total_ms \div 1000) % 60
  IN IF show_ms THEN <<mm, ss, total_ms % 1000>> ELSE <<mm, ss>>

\* the lines export_grouped_text writes; ts is the bucket key a line is
\* written from
GroupedLines(seq, sep, show_ms) ==
  LET b == Buckets(seq)
  IN [i \in 1..Len(b) |->
        [ts |-> b[i].ts,
         stamp |-> FormatMMSS(b[i].ts, show_ms),
         text |-> Join(b[i].texts, sep)]]

\* JsonWriter.export_grouped_text
ExportGroupedText(sep, show_ms) ==
  /\ out' = GroupedLines(data, sep, show_ms)
  /\ lastOp' = [op |-> "export", tt |-> 0, st |-> 0]
  /\ removed_count' = 0
  /\ UNCHANGED <<data, total_detections, issued, json>>

\* the document finalize dumps: self.metadata and self.data
OutputData(seq, total) ==
  [written |-> TRUE, total_detections |-> total, detections |-> seq]

\* JsonWriter.finalize
Finalize ==
  /\ json' = OutputData(data, total_detections)
  /\ lastOp' = [op |-> "finalize", tt |-> 0, st |-> 0]
  /\ removed_count' = 0
  /\ out' = <<>>
  /\ UNCHANGED <<data, total_detections, issued>>

\* -------------------------------------------------- inputs of the store
\* The add calls the store is driven with: raw timestamp (1/SubRes ms), text,
\* raw confidence (1/SubRes of 0.0001).
\*   " hello " at 1.0 s, 0.6        "Hallo" at 1.4 s, 0.89996
\*   "hello" at 2.4 s, 0.6          " " at 1.0004 s, 0.9
\*   "Hallo" at 1.0 s, 0.6          "hello" at 1.4 s, 0.9
AddCalls ==
  {[ts |-> 1000 * SubRes, text |-> padded, conf |-> 6000 * SubRes],
   [ts |-> 1400 * SubRes, text |-> Hallo, conf |-> 9000 * SubRes - 4],
   [ts |-> 2400 * SubRes, text |-> hello, conf |-> 6000 * SubRes],
   [ts |-> 1000 * SubRes + 4, text |-> blank, conf |-> 9000 * SubRes],
   [ts |-> 1000 * SubRes, text |-> Hallo, conf |-> 6000 * SubRes],
   [ts |-> 1400 * SubRes, text |-> hello, conf |-> 9000 * SubRes]}
\* min_confidence values (stored unit): 0.5, 0.9, 0.95
MinConfidences == {5000, 9000, 9500}
\* time_threshold values (ms): 1.0 s, 0.3 s
TimeThresholds == {1000, 300}
\* similarity_threshold values (hundredths): 0.7, 0.9
SimilarityThresholds == {70, 90}
\* default separator of export_grouped_text
DefaultSep == <<" ", "|", " ">>

\* ============================================================= StoreSpec
\* One JsonWriter driven by any sequence of its calls; finalize completes the
\* work with the writer and is the last call made on it.
StoreInit ==
  /\ WriterInit
  /\ step = 1 /\ nframes = 0 /\ cap = 0 /\ pos = 0
  /\ releases = <<>> /\ gen = "none" /\ frame_idx = 0 /\ yielded = <<>>
  /\ ending = "" /\ alive = FALSE /\ lookups = <<>>
  /\ ppc = "none" /\ ocr = "none" /\ options = <<>>
  /\ frame_count = 0 /\ offered = {} /\ added = {}
  /\ failed = {} /\ init_failed = FALSE

StoreAdd ==
  /\ ~json.written
  /\ Len(data) < MaxData
  /\ \E c \in AddCalls : Add(c.ts, c.text, c.conf)
  /\ UNCHANGED <<samplerVars, pipeVars>>

StoreFilter ==
  /\ ~json.written
  /\ \E c \in MinConfidences : FilterByConfidence(c)
  /\ UNCHANGED <<samplerVars, pipeVars>>

StoreDedup ==
  /\ ~json.written
  /\ \E tt \in TimeThresholds, st \in SimilarityThresholds : RemoveDuplicates(tt, st)
  /\ UNCHANGED <<samplerVars, pipeVars>>

StoreExport ==
  /\ ~json.written
  /\ \E show_ms \in BOOLEAN : ExportGroupedText(DefaultSep, show_ms)
  /\ UNCHANGED <<samplerVars, pipeVars>>

StoreFinalize ==
  /\ ~json.written
  /\ Finalize
  /\ UNCHANGED <<samplerVars, pipeVars>>

StoreNext == StoreAdd \/ StoreFilter \/ StoreDedup \/ StoreExport \/ StoreFinalize

StoreSpec == StoreInit /\ [][StoreNext]_vars

\* ======================================================= claims: store
HasText(d) == Strip(d.text) # <<>>

\* C3: within one store, the detection_id given to a newly created detection
\* is strictly greater than every id handed out earlier, also after removals.
C3_IdsStrictlyIncreasing ==
  [][lastOp'.op = "add" => \A i \in issued : Last(data').detection_id > i]_vars

\* C4: remove_duplicates called twice in succession with the same thresholds:
\* the second call removes nothing and leaves the store as the first left it.
C4_DedupIdempotent ==
  [][(lastOp.op = "dedup" /\ lastOp' = lastOp) =>
       (data' = data /\ removed_count' = 0)]_vars

\* C5: a store of exactly two detections no further apart than time_threshold,
\* with case-insensitive similarity at least similarity_threshold and different
\* confidences: remove_duplicates leaves exactly the one of higher confidence,
\* whichever was inserted first.
C5_KeepsHigherOfTwo ==
  [][(/\ lastOp'.op = "dedup"
      /\ Len(data) = 2
      /\ Abs(data[2].timestamp - data[1].timestamp) <= lastOp'.tt
      /\ RatioAtLeast(Lower(data[2].text), Lower(data[1].text), lastOp'.st)
      /\ data[1].confidence # data[2].confidence)
     => data' = <<IF data[1].confidence > data[2].confidence
                    THEN data[1] ELSE data[2]>>]_vars

\* C5 witness: a dedup call has just collapsed two detections into one, and the
\* survivor is the later inserted one, of confidence 0.9 ("Hallo" at 1.4 s
\* against "hello" at 1.0 s, thresholds 1.0 / 0.7).
C5_Witness ==
  /\ lastOp = [op |-> "dedup", tt |-> 1000, st |-> 70]
  /\ removed_count = 1
  /\ Len(data) = 1
  /\ data[1].text = Hallo /\ data[1].timestamp = 1400
  /\ data[1].confidence = 9000 /\ data[1].detection_id = 2

\* C6: after filter_by_confidence(c) every remaining detection has confidence
\* >= c, every detection that had confidence >= c is still present, and the
\* number removed is the number that had confidence < c.
C6_FilterPostcondition ==
  [][\A c \in MinConfidences :
       FilterByConfidence(c) =>
         LET low == {i \in 1..Len(data) : data[i].confidence < c}
         IN /\ \A j \in 1..Len(data') : data'[j].confidence >= c
            /\ \A i \in 1..Len(data) :
                 data[i].confidence >= c => \E j \in 1..Len(data') : data'[j] = data[i]
            /\ Len(data) - Len(data') = Cardinality(low)
            /\ removed_count' = Cardinality(low)]_vars

\* C6 witness: a filter call has just removed one detection and kept two, one of
\* them with a confidence exactly at a threshold (0.9).
C6_Witness ==
  /\ lastOp.op = "filter"
  /\ removed_count = 1
  /\ Len(data) = 2
  /\ \E i \in 1..Len(data) : data[i].confidence = 9000

\* C7: add with a text that trims to empty is a no-op, so no stored detection
\* has empty trimmed text.
C7_NoEmptyText == \A i \in 1..Len(data) : HasText(data[i])

\* C10: the grouped transcript has one line per distinct timestamp among the
\* detections with non-empty text, the lines are in ascending timestamp order,
\* and each line joins the texts of that timestamp in store order.
C10_GroupedTranscript ==
  lastOp.op = "export" =>
    LET withText == {i \in 1..Len(data) : HasText(data[i])}
        AtTime(t) == LET At(d) == HasText(d) /\ d.timestamp = t
                     IN SelectSeq(data, At)
    IN /\ Len(out) = Cardinality({data[i].timestamp : i \in withText})
       /\ \A i, j \in 1..Len(out) : i < j => out[i].ts < out[j].ts
       /\ \A i \in 1..Len(out) :
            out[i].text =
              Join([k \in 1..Len(AtTime(out[i].ts)) |-> AtTime(out[i].ts)[k].text],
                   DefaultSep)

\* C10 witness: a transcript of two lines has just been written from three
\* detections stored out of time order, the first and the third sharing a
\* timestamp and so a line.
C10_Witness ==
  /\ lastOp.op = "export"
  /\ Len(data) = 3 /\ Len(out) = 2
  /\ \A i \in 1..3 : HasText(data[i])
  /\ data[1].timestamp > data[2].timestamp
  /\ data[3].timestamp = data[1].timestamp
  /\ data[3].text # data[1].text

\* ========================================================== FrameExtractor
\* The source is assumed to stay openable: VideoCapture.isOpened() holds for
\* every VideoCapture the model creates.

\* self.step = max(1, step)
CoerceStep(s) == IF s > 1 THEN s ELSE 1

\* the stride test of __iter__ with the test made on the count of decoded frames
ShouldYieldAfter(idx, stride) == (idx + 1) % stride = 0

\* the stride test of __iter__
ShouldYield(idx, stride) == idx % stride = 0

\* _cleanup leaving self.cap in place
CapAfterCleanupKept(c) == c

\* self.cap after _cleanup
CapAfterCleanup(c) == 0

\* cap.release() counts after _cleanup
ReleasesAfterCleanup(c, rel) ==
  IF c # 0 THEN [rel EXCEPT ![c] = @ + 1] ELSE rel

\* FrameExtractor._cleanup
Cleanup ==
  /\ releases' = ReleasesAfterCleanup(cap, releases)
  /\ cap' = IF cap # 0 THEN CapAfterCleanup(cap) ELSE cap

\* FrameExtractor.__init__ done: the first VideoCapture is open at frame 0
ExtractorInit ==
  /\ \E s \in 0..MaxStep : step = CoerceStep(s)
  /\ nframes \in 0..MaxFrames
  /\ cap = 1 /\ pos = 0 /\ releases = <<0>>
  /\ gen = "none" /\ frame_idx = 0 /\ yielded = <<>> /\ ending = ""
  /\ alive = TRUE
  /\ lookups = <<>>

\* iter(extractor) and the first next(): the generator runs up to its loop;
\* _init_video opens a new VideoCapture when self.cap is None
IterStart ==
  /\ alive
  /\ gen \in {"none", "done"}
  /\ cap # 0 \/ Len(releases) < MaxHandles
  /\ IF cap = 0
       THEN /\ cap' = Len(releases) + 1
            /\ releases' = Append(releases, 0)
            /\ pos' = 0
       ELSE UNCHANGED <<cap, releases, pos>>
  /\ frame_idx' = 0
  /\ yielded' = <<>>
  /\ ending' = ""
  /\ gen' = "loop"
  /\ lookups' = <<>>
  /\ UNCHANGED <<step, nframes, alive>>

\* one pass of the while loop of __iter__: self.cap.read(), then the stride test
Read ==
  /\ gen = "loop"
  /\ IF cap = 0
       THEN \* self.cap is None: AttributeError, the finally clause runs
            /\ Cleanup
            /\ gen' = "done" /\ ending' = "error"
            /\ UNCHANGED <<pos, frame_idx, yielded>>
       ELSE IF pos < nframes
         THEN /\ pos' = pos + 1
              /\ IF ShouldYield(frame_idx, step)
                   THEN /\ yielded' = Append(yielded, frame_idx)
                        /\ gen' = "yield"
                        /\ UNCHANGED frame_idx
                   ELSE /\ frame_idx' = frame_idx + 1
                        /\ UNCHANGED <<yielded, gen>>
              /\ UNCHANGED <<cap, releases, ending>>
         ELSE \* ret is False: break, the finally clause runs
              /\ Cleanup
              /\ gen' = "done" /\ ending' = "exhausted"
              /\ UNCHANGED <<pos, frame_idx, yielded>>
  /\ UNCHANGED <<step, nframes, alive, lookups>>

\* next() on the suspended generator: frame_idx += 1, back to the loop
Resume ==
  /\ gen = "yield"
  /\ frame_idx' = frame_idx + 1
  /\ gen' = "loop"
  /\ UNCHANGED <<step, nframes, cap, pos, releases, yielded, ending, alive, lookups>>

\* the caller abandons the iteration: the suspended generator is closed and
\* GeneratorExit at the yield runs the finally clause
Close ==
  /\ gen = "yield"
  /\ Cleanup
  /\ gen' = "done" /\ ending' = "closed"
  /\ UNCHANGED <<step, nframes, pos, frame_idx, yielded, alive, lookups>>

\* FrameExtractor.__exit__ (the generator is not running)
Exit ==
  /\ alive
  /\ gen # "loop"
  /\ Cleanup
  /\ UNCHANGED <<step, nframes, pos, gen, frame_idx, yielded, ending, alive, lookups>>

\* FrameExtractor.__del__ (no generator holds the object any more)
Del ==
  /\ alive
  /\ gen \in {"none", "done"}
  /\ Cleanup
  /\ alive' = FALSE
  /\ UNCHANGED <<step, nframes, pos, gen, frame_idx, yielded, ending, lookups>>

\* the decode position after cap.set(CAP_PROP_POS_FRAMES, i) and cap.read():
\* behind frame i when the source has one, else where the seek put it
PosAfterSeek(i, n) == IF i < n THEN i + 1 ELSE i

\* the frame the source shows at time_sec (ms): it reports 0.5 s per frame
FrameAtTime(time_ms) == time_ms \div 500

\* cap.set(...) to frame i, cap.read(), a frame returned or ValueError raised:
\* the body get_frame_at_index and get_frame_at_time share. _init_video opens a
\* new VideoCapture first when self.cap is None.
SeekAndRead(i) ==
  /\ alive
  /\ gen # "loop"
  /\ cap # 0 \/ Len(releases) < MaxHandles
  /\ IF cap = 0
       THEN /\ cap' = Len(releases) + 1
            /\ releases' = Append(releases, 0)
       ELSE UNCHANGED <<cap, releases>>
  /\ pos' = PosAfterSeek(i, nframes)
  /\ lookups' = Append(lookups, IF i < nframes THEN "frame" ELSE "not_found")
  /\ UNCHANGED <<step, nframes, gen, frame_idx, yielded, ending, alive>>

\* FrameExtractor.get_frame_at_index
GetFrameAtIndex(i) == SeekAndRead(i)

\* FrameExtractor.get_frame_at_time
GetFrameAtTime(time_ms) == SeekAndRead(FrameAtTime(time_ms))

\* =========================================================== SamplerSpec
\* One FrameExtractor, iterated, abandoned, left and destroyed by its caller.
SamplerInit ==
  /\ ExtractorInit
  /\ WriterInit
  /\ ppc = "none" /\ ocr = "none" /\ options = <<>>
  /\ frame_count = 0 /\ offered = {} /\ added = {}
  /\ failed = {} /\ init_failed = FALSE

SamplerIterStart == IterStart /\ UNCHANGED <<storeVars, pipeVars>>
SamplerRead == Read /\ UNCHANGED <<storeVars, pipeVars>>
SamplerResume == Resume /\ UNCHANGED <<storeVars, pipeVars>>
SamplerClose == Close /\ UNCHANGED <<storeVars, pipeVars>>
SamplerExit == Exit /\ UNCHANGED <<storeVars, pipeVars>>
SamplerDel == Del /\ UNCHANGED <<storeVars, pipeVars>>

SamplerNext ==
  \/ SamplerIterStart
  \/ SamplerRead
  \/ SamplerResume
  \/ SamplerClose
  \/ SamplerExit
  \/ SamplerDel

SamplerSpec == SamplerInit /\ [][SamplerNext]_vars

\* ====================================================== RandomAccessSpec
\* One FrameExtractor whose caller also makes random-access calls between two
\* samples of an iteration.
\* frame indices asked for: up to one behind the longest source
SeekIndices == 0..(MaxFrames + 1)
\* times asked for (ms): 0.0 s, 0.5 s, ...
SeekTimes == {500 * k : k \in SeekIndices}

AccessAtIndex ==
  /\ gen = "yield"
  /\ Len(lookups) < MaxSeeks
  /\ \E i \in SeekIndices : GetFrameAtIndex(i)
  /\ UNCHANGED <<storeVars, pipeVars>>

AccessAtTime ==
  /\ gen = "yield"
  /\ Len(lookups) < MaxSeeks
  /\ \E t \in SeekTimes : GetFrameAtTime(t)
  /\ UNCHANGED <<storeVars, pipeVars>>

RandomAccessNext ==
  \/ SamplerIterStart
  \/ SamplerRead
  \/ SamplerResume
  \/ SamplerClose
  \/ SamplerExit
  \/ SamplerDel
  \/ AccessAtIndex
  \/ AccessAtTime

RandomAccessSpec == SamplerInit /\ [][RandomAccessNext]_vars

\* ===================================================== claims: sampler
CeilDiv(n, d) == (n + d - 1) \div d

\* C1: one full iteration over a source of N decodable frames at stride s yields
\* exactly ceil(N / s) samples, at the indices 0, s, 2s, ... in increasing
\* order; frame_idx advances by 1 for every decoded frame, yielded or not.
C1_StridedSamples ==
  /\ \A i \in 1..Len(yielded) : yielded[i] = (i - 1) * step
  /\ (gen = "loop" /\ cap # 0) => frame_idx = pos
  /\ (gen = "yield" /\ cap # 0) => frame_idx = pos - 1 /\ Last(yielded) = frame_idx
  /\ (gen = "done" /\ ending = "exhausted") =>
       /\ Len(yielded) = CeilDiv(nframes, step)
       /\ frame_idx = nframes

\* C1 witness: an iteration over 5 frames at stride 2 has run to the end of the
\* source and yielded 3 samples.
C1_Witness ==
  /\ gen = "done" /\ ending = "exhausted"
  /\ nframes = 5 /\ step = 2
  /\ yielded = <<0, 2, 4>>

\* C2: on every exit path of the iteration (source exhausted, or abandoned after
\* any number of yields) the source handle is released exactly once: not left
\* open, and not released again by __exit__ or __del__ afterwards.
C2_ReleasedExactlyOnce ==
  /\ \A h \in 1..Len(releases) : releases[h] <= 1
  /\ gen = "done" => cap = 0 /\ \A h \in 1..Len(releases) : releases[h] = 1

\* C2 witness: the caller abandoned the iteration after two yields, and the
\* extractor has since been destroyed; its one handle was released once.
C2_Witness ==
  /\ gen = "done" /\ ending = "closed"
  /\ Len(yielded) = 2
  /\ ~alive
  /\ releases = <<1>>

\* ====================================================== PaddleOCRWrapper
\* A raw result of the engine is [text, score]: one entry of rec_texts with
\* its rec_scores entry, the score raw (1/SubRes of 0.0001).

\* the confidence floor of recognize, 0.30, in stored units
ConfidenceFloor == 3000

\* the gate of recognize comparing the rounded score
PassesGateRounded(r) == ~(r.text = <<>> \/ Round(r.score) < ConfidenceFloor)

\* the gate of recognize: "if not txt or score < 0.30: continue" skips r
PassesGate(r) == ~(r.text = <<>> \/ r.score < ConfidenceFloor * SubRes)

\* what recognize yields for the pages the engine returned: the results passing
\* the gate, in order, the text stripped
Recognized(pages) ==
  LET passed == SelectSeq(pages, PassesGate)
  IN [i \in 1..Len(passed) |->
        [text |-> Strip(passed[i].text), score |-> passed[i].score, raw |-> passed[i]]]

\* The raw results the engine is driven to return:
\*   "hello" 0.29996     "hello" 0.92     " " 0.92     "" 0.92
RawResults ==
  {[text |-> hello, score |-> 3000 * SubRes - 4],
   [text |-> hello, score |-> 9200 * SubRes],
   [text |-> blank, score |-> 9200 * SubRes],
   [text |-> empty, score |-> 9200 * SubRes]}

\* the result lists of one predict call
RECURSIVE SeqsUpTo(_, _)
SeqsUpTo(S, n) ==
  IF n = 0 THEN {<<>>}
  ELSE LET shorter == SeqsUpTo(S, n - 1)
       IN shorter \cup {Append(q, x) : q \in {t \in shorter : Len(t) = n - 1}, x \in S}

Pages == SeqsUpTo(RawResults, MaxRaw)

\* outcomes of self.ocr.predict: it returns pages, or it raises
PredictOutcomes ==
  {[raised |-> FALSE, pages |-> p] : p \in Pages} \cup {[raised |-> TRUE, pages |-> <<>>]}

\* outcomes of PaddleOCRWrapper._init_ocr: the engine is built, building it
\* raises an Exception (caught, self.ocr stays None), or the import fails
\* (ImportError is raised on)
InitOutcomes == {"ready", "failed", "import_error"}

\* ============================================================ run_pipeline
\* cap.get(CAP_PROP_POS_MSEC) / 1000.0 read at the yield, raw (1/SubRes ms):
\* the source reports 0.5 s per decoded frame, and a fraction below the stored
\* resolution
TimestampAt(p) == p * 500 * SubRes + 4

\* self.data after the add calls of one frame
RECURSIVE AddedAll(_, _, _, _)
AddedAll(seq, ts, results, k) ==
  IF k > Len(results) THEN seq
  ELSE AddedAll(Appended(seq, ts, results[k].text, results[k].score), ts, results, k + 1)

\* The run starts: run_pipeline(video_path, out_path, step=..., gpu=...) has
\* been called, by run_pipeline_advanced with its min_confidence and
\* filter_duplicates, nothing is constructed yet.
PipeInit ==
  /\ \E s \in 0..MaxStep : step = CoerceStep(s)
  /\ nframes \in 0..PipeFrames
  /\ cap = 0 /\ pos = 0 /\ releases = <<>>
  /\ gen = "none" /\ frame_idx = 0 /\ yielded = <<>> /\ ending = ""
  /\ alive = FALSE
  /\ lookups = <<>>
  /\ WriterInit
  /\ ppc = "start"
  /\ ocr = "none"
  /\ options \in [min_confidence : MinConfidences, filter_duplicates : BOOLEAN]
  /\ frame_count = 0
  /\ offered = {}
  /\ added = {}
  /\ failed = {}
  /\ init_failed = FALSE

\* FrameExtractor(video_path, step), PaddleOCRWrapper(gpu), JsonWriter(out_path)
PipeConstruct ==
  /\ ppc = "start"
  /\ cap' = 1 /\ releases' = <<0>> /\ pos' = 0 /\ alive' = TRUE
  /\ \E o \in InitOutcomes :
       /\ ocr' = IF o = "ready" THEN "ready" ELSE "none"
       /\ init_failed' = (o = "failed")
       /\ ppc' = IF o = "import_error" THEN "aborted" ELSE "loop"
  /\ UNCHANGED <<step, nframes, gen, frame_idx, yielded, ending, lookups>>
  /\ UNCHANGED <<storeVars, options, frame_count, offered, added, failed>>

\* "for idx, frame, ts in extractor": the loop asks for the first sample
PipeIterStart ==
  /\ ppc = "loop"
  /\ gen = "none"
  /\ IterStart
  /\ UNCHANGED <<storeVars, pipeVars>>

\* the generator decodes the next frame
PipeRead ==
  /\ ppc = "loop"
  /\ Read
  /\ UNCHANGED <<storeVars, pipeVars>>

\* self.ocr.predict was called (the engine is there) and raised
PredictRaised(o, predict) == o = "ready" /\ predict.raised

\* LeavesRun with an exception of predict escaping recognize as well
LeavesRunOnRaise(o, predict) == o = "import_error" \/ PredictRaised(o, predict)

\* the recognize call ends with an exception that run_pipeline does not catch:
\* only the ImportError of a repeated _init_ocr; "except Exception" around
\* predict keeps every exception of the engine call inside recognize
LeavesRun(o, predict) == o = "import_error"

\* The loop body for one sample, then the request for the next one.
\* recognize: a missing engine is built again first; predict returns pages or
\* raises (caught: no results); the gate; then writer.add for every result.
PipeBody ==
  /\ ppc = "loop"
  /\ gen = "yield"
  /\ \E o \in (IF ocr = "none" THEN InitOutcomes ELSE {"ready"}),
        predict \in PredictOutcomes :
       IF LeavesRun(o, predict)
         THEN \* the exception leaves recognize and run_pipeline
              /\ ppc' = "aborted"
              /\ frame_count' = frame_count + 1
              /\ failed' = IF PredictRaised(o, predict)
                            THEN failed \cup {frame_idx} ELSE failed
              /\ UNCHANGED <<samplerVars, storeVars, ocr, options, offered, added,
                             init_failed>>
         ELSE LET got == IF o = "failed" \/ predict.raised THEN <<>> ELSE predict.pages
                  results == Recognized(got)
                  ts == TimestampAt(pos)
              IN /\ ocr' = IF o = "ready" THEN "ready" ELSE "none"
                 /\ init_failed' = (init_failed \/ o = "failed")
                 /\ failed' = IF PredictRaised(o, predict)
                               THEN failed \cup {frame_idx} ELSE failed
                 /\ offered' = offered \cup {got[i] : i \in 1..Len(got)}
                 /\ added' = added \cup {results[i].raw : i \in 1..Len(results)}
                 /\ data' = AddedAll(data, ts, results, 1)
                 /\ total_detections' = total_detections + Len(results)
                 /\ issued' = issued \cup
                      {data'[i].detection_id : i \in (Len(data) + 1)..Len(data')}
                 /\ lastOp' = IF results = <<>> THEN lastOp
                              ELSE [op |-> "add", tt |-> 0, st |-> 0]
                 /\ removed_count' = IF results = <<>> THEN removed_count ELSE 0
                 /\ out' = IF results = <<>> THEN out ELSE <<>>
                 /\ frame_count' = frame_count + 1
                 /\ Resume
                 /\ UNCHANGED <<ppc, options, json>>

\* after the loop: writer.export_grouped_text(text_file_path=..., sep=" | ",
\* show_ms=False)
PipeExport ==
  /\ ppc = "loop"
  /\ gen = "done"
  /\ ExportGroupedText(DefaultSep, FALSE)
  /\ ppc' = "done"
  /\ UNCHANGED <<samplerVars, ocr, options, frame_count, offered, added, failed,
                 init_failed>>

\* the exception leaves run_pipeline: the suspended generator is closed
PipeUnwind ==
  /\ ppc = "aborted"
  /\ Close
  /\ UNCHANGED <<storeVars, pipeVars>>

\* run_pipeline has returned or raised: the FrameExtractor is destroyed
PipeDel ==
  /\ ppc \in {"done", "aborted"}
  /\ Del
  /\ UNCHANGED <<storeVars, pipeVars>>

Next ==
  \/ PipeConstruct
  \/ PipeIterStart
  \/ PipeRead
  \/ PipeBody
  \/ PipeExport
  \/ PipeUnwind
  \/ PipeDel

\* One run of run_pipeline.
Spec == PipeInit /\ [][Next]_vars

\* ==================================================== claims: pipeline
\* C8: a raw result with confidence below 0.30 never becomes a detection of the
\* store, whatever min_confidence and filter_duplicates the run was given.
C8_FloorNeverStored ==
  /\ \A r \in added : r.score >= ConfidenceFloor * SubRes
  /\ Len(data) = Cardinality({i \in 1..Len(data) : data[i].confidence >= ConfidenceFloor})
  /\ \A i \in 1..Len(data) :
       \E r \in added : data[i].confidence = Round(r.score) /\ data[i].text = Strip(r.text)

\* C8 witness: the run has exported; the engine returned "hello" at 0.29996,
\* which rounds to 0.3, and "hello" at 0.92, and only the latter is stored.
C8_Witness ==
  /\ ppc = "done"
  /\ [text |-> hello, score |-> 3000 * SubRes - 4] \in offered
  /\ Len(data) = 1
  /\ data[1].text = hello /\ data[1].confidence = 9200

\* C9: a raw result whose text is empty or only whitespace is discarded by the
\* gate of recognize: it is never passed to add and never stored.
C9_BlankNeverStored ==
  /\ \A r \in added : Strip(r.text) # <<>>
  /\ \A i \in 1..Len(data) : HasText(data[i])

\* C11: a run that completes the frame iteration has written the structured
\* record by the time it ends, from the store as it is after the last add, and
\* the record's total_detections is the number of detections in the store.
C11_RecordWrittenAtEnd ==
  ppc = "done" =>
    /\ json.written
    /\ json.detections = data
    /\ json.total_detections = Len(data)

\* a detection of the store has an entry in the structured record rendered
\* from the store
InRecord(d) ==
  LET doc == OutputData(data, total_detections)
  IN \E k \in 1..Len(doc.detections) : doc.detections[k] = d

\* a detection of the store contributes its text to a line of the grouped
\* transcript rendered from the store
InTranscript(d) ==
  LET b == Buckets(data)
  IN \E i \in 1..Len(b) :
       /\ b[i].ts = d.timestamp
       /\ \E k \in 1..Len(b[i].texts) : b[i].texts[k] = Strip(d.text)

\* C12: the two exports include the same detections: rendered from one store
\* state, a detection has an entry in the structured record exactly if its text
\* is part of a line of the grouped transcript.
C12_ExportsAgree ==
  \A i \in 1..Len(data) : InRecord(data[i]) <=> InTranscript(data[i])

\* C13: when the predict call raises for a sampled frame, recognize catches it
\* and yields nothing: that frame leaves the store as it was, the loop goes on
\* to the next sample, the run is never aborted after it, and a run that is
\* done has exported after processing every sample of the source.
C13_RaiseIsZeroDetections ==
  /\ [][failed' # failed =>
          /\ data' = data
          /\ total_detections' = total_detections
          /\ ppc' = "loop"
          /\ gen' = "loop"]_vars
  /\ [](failed # {} => ppc \in {"loop", "done"})
  /\ [](ppc = "done" => (lastOp.op = "export" /\ frame_count = CeilDiv(nframes, step)))

\* C13 witness: predict raised for the first of two samples, the second one
\* gave a detection, and the run has exported it.
C13_Witness ==
  /\ ppc = "done"
  /\ failed = {0}
  /\ frame_count = 2
  /\ Len(data) = 1
  /\ Len(out) = 1

\* C16: once an initialization of the recognizer has failed without aborting
\* the run, recognition stays off: no sampled frame after it adds a detection.
C16_DisabledForTheRun ==
  init_failed => data = <<>>

\* C14: an iteration that has terminated cannot be started again: starting
\* another iteration on the same FrameExtractor opens no new handle on the
\* source, so that it has nothing to decode and yields no samples.
C14_NotRestartable ==
  [][(gen = "done" /\ gen' = "loop") =>
       (releases' = releases /\ cap' = 0)]_vars

\* C15: in remove_duplicates, a candidate that matches an accepted detection
\* (time difference <= time_threshold, similarity >= similarity_threshold) of
\* equal confidence is discarded and the accepted set stays as it is, the
\* earlier-inserted detection in its place. Stated for every candidate of a
\* pass over the store: data[k] against the accepted set built from the
\* detections before it.
C15_TieKeepsEarlier ==
  \A tt \in TimeThresholds, st \in SimilarityThresholds, k \in 1..Len(data) :
    LET accepted == Dedup(SubSeq(data, 1, k - 1), tt, st)
        m == FirstMatch(accepted, data[k], tt, st)
    IN (m # 0 /\ data[k].confidence = accepted[m].confidence) =>
         Dedup(SubSeq(data, 1, k), tt, st) = accepted

\* C15 witness: remove_duplicates has dropped the second of two detections
\* (ids 1 and 2 were issued, none removed before) and kept the first, at
\* confidence 0.6, the lowest any add call has: the dropped one was its equal.
C15_Witness ==
  /\ lastOp.op = "dedup"
  /\ removed_count = 1
  /\ issued = {1, 2}
  /\ Len(data) = 1
  /\ data[1].detection_id = 1
  /\ data[1].confidence = 6000
  /\ \A c \in AddCalls : Round(c.conf) >= 6000

\* C17: a get_frame_at_index or get_frame_at_time call that finds no frame
\* (position beyond the end of the source), made between two samples of an
\* iteration, does not end the iteration: with no other random-access call
\* made, the iteration still yields every strided sample of the source.
C17_NotFoundIsLocal ==
  (/\ gen = "done" /\ ending = "exhausted"
   /\ lookups # <<>>
   /\ \A k \in 1..Len(lookups) : lookups[k] = "not_found") =>
    /\ Len(yielded) = CeilDiv(nframes, step)
    /\ \A i \in 1..Len(yielded) : yielded[i] = (i - 1) * step

\* the highest confidence of a non-empty list of detections
MaxConfidence(seq) ==
  CHOOSE c \in {seq[i].confidence : i \in 1..Len(seq)} :
    \A i \in 1..Len(seq) : seq[i].confidence <= c

\* C18: remove_duplicates never loses the best detection: called on a
\* non-empty store, with any thresholds, it leaves a non-empty store whose
\* highest confidence is the highest confidence of the store before the call.
C18_DedupKeepsBest ==
  [][(lastOp'.op = "dedup" /\ data # <<>>) =>
       (data' # <<>> /\ MaxConfidence(data') = MaxConfidence(data))]_vars

\* C18 witness: remove_duplicates has removed one of three detections; one of
\* confidence 0.9 and one of confidence 0.6 remain.
C18_Witness ==
  /\ lastOp.op = "dedup"
  /\ removed_count = 1
  /\ Len(data) = 2
  /\ \E i, j \in 1..2 : data[i].confidence = 9000 /\ data[j].confidence = 6000

\* C19: after any sequence of add, filter_by_confidence and remove_duplicates
\* calls, metadata["total_detections"] is the number of stored detections,
\* also after a call that removed nothing.
C19_TotalIsLength ==
  total_detections = Len(data)

\* C19 witness: three detections were added, an earlier call removed one, and
\* the last call, remove_duplicates, removed nothing.
C19_Witness ==
  /\ lastOp.op = "dedup"
  /\ removed_count = 0
  /\ issued = {1, 2, 3}
  /\ Len(data) = 2
  /\ total_detections = 2

=============================================================================
